---- MODULE Spec2Model ----
(***************************************************************************)
(* Model of the two one-shot conversion scripts of the repository:         *)
(*   generate_ios_icons.py    (the icon generator, generate_icons)         *)
(*   convert_captcha_model.py (the model exporter, inspect_model and       *)
(*                             convert_model, driven by __main__)          *)
(* Library calls (os, PIL, torch, coremltools) are modelled by their       *)
(* effect on the file system and by a nondeterministic choice between      *)
(* returning and raising.                                                  *)
(***************************************************************************)
EXTENDS Integers, Sequences, FiniteSets, TLC

VARIABLES
    \* ---- icon generator: the environment
    src,        \* the file at android_icon_path: [exists, readable, mode, w, h]
    dirExists,  \* whether ios_appicon_dir exists
    fs,         \* the files of ios_appicon_dir: name -> [mode, w, h]
    \* ---- icon generator: the run
    ipc,        \* position in generate_icons
    img,        \* the opened (and converted) image
    idx,        \* position of the for loop in ios_icon_sizes
    resized,    \* the result of img.resize for the current entry
    written,    \* the filenames saved by this run, in order
    out,        \* what this run has printed
    runs,       \* how many times the script has been started
    snapshot,   \* the directory as the first successful run left it, and which run
    \* ---- model exporter: the environment
    artifact,   \* the file at model_path: [loadable, callable, shape]
    pkg,        \* the package at output_path
    \* ---- model exporter: the run
    epc,        \* position in __main__ / inspect_model / convert_model
    model,      \* convert_model's loaded model
    traced_model,
    mlmodel,    \* the converted model and its metadata
    ecalls,     \* the library calls made, in order, each with its outcome
    eout        \* what the run has printed

ivars == <<src, dirExists, fs, ipc, img, idx, resized, written, out, runs, snapshot>>
evars == <<artifact, pkg, epc, model, traced_model, mlmodel, ecalls, eout>>
vars == <<ivars, evars>>

(***************************************************************************)
(* Bounds                                                                  *)
(***************************************************************************)
MaxRuns == 2

(***************************************************************************)
(* generate_ios_icons.py                                                   *)
(***************************************************************************)
E(n, w, h) == [name |-> n, w |-> w, h |-> h]

\* The size table, in its declared (dict insertion) order.
ios_icon_sizes ==
    << E("Icon-App-20x20@2x.png", 40, 40),
       E("Icon-App-20x20@3x.png", 60, 60),
       E("Icon-App-29x29@2x.png", 58, 58),
       E("Icon-App-29x29@3x.png", 87, 87),
       E("Icon-App-40x40@2x.png", 80, 80),
       E("Icon-App-40x40@3x.png", 120, 120),
       E("Icon-App-60x60@2x.png", 120, 120),
       E("Icon-App-60x60@3x.png", 180, 180),
       E("Icon-App-76x76@1x.png", 76, 76),
       E("Icon-App-76x76@2x.png", 152, 152),
       E("Icon-App-83.5x83.5@2x.png", 167, 167),
       E("Icon-App-1024x1024@1x.png", 1024, 1024),
       E("Icon-Mac-16x16@1x.png", 16, 16),
       E("Icon-Mac-16x16@2x.png", 32, 32),
       E("Icon-Mac-32x32@1x.png", 32, 32),
       E("Icon-Mac-32x32@2x.png", 64, 64),
       E("Icon-Mac-128x128@1x.png", 128, 128),
       E("Icon-Mac-128x128@2x.png", 256, 256),
       E("Icon-Mac-256x256@1x.png", 256, 256),
       E("Icon-Mac-256x256@2x.png", 512, 512),
       E("Icon-Mac-512x512@1x.png", 512, 512),
       E("Icon-Mac-512x512@2x.png", 1024, 1024) >>

NEntries == Len(ios_icon_sizes)

IconNames == {ios_icon_sizes[i].name : i \in 1..NEntries}

\* Files of the output directory that are not in the table.
OtherNames == {"Contents.json", "Icon-App-20x20@2x-1.png"}

AllNames == IconNames \cup OtherNames

NoFile == [mode |-> "absent", w |-> 0, h |-> 0]
NoImg == [mode |-> "none", w |-> 0, h |-> 0]
NoSrc == [exists |-> FALSE, readable |-> FALSE, mode |-> "none", w |-> 0, h |-> 0]

\* Sources the script can meet: the xxxhdpi launcher icon, a non-square
\* image, in modes with and without an alpha channel, and an unreadable file.
Sources ==
    {NoSrc, [exists |-> TRUE, readable |-> FALSE, mode |-> "none", w |-> 0, h |-> 0]}
    \cup {[exists |-> TRUE, readable |-> TRUE, mode |-> m, w |-> s[1], h |-> s[2]] :
            m \in {"RGB", "RGBA", "P"}, s \in {<<192, 192>>, <<100, 50>>}}

EmptyDir == [n \in AllNames |-> NoFile]

\* A directory left by an earlier hand edit: Xcode's Contents.json and one
\* icon of the wrong size and mode.
StaleDir ==
    [n \in AllNames |->
        IF n = "Contents.json" THEN [mode |-> "json", w |-> 0, h |-> 0]
        ELSE IF n = "Icon-App-20x20@2x.png" THEN [mode |-> "RGB", w |-> 20, h |-> 20]
        ELSE NoFile]

Msg(t, n) == [tag |-> t, n |-> n]

\* img.convert('RGBA'): same pixels' geometry, new mode.
ImgConvert(im, mode) == [im EXCEPT !.mode = mode]

\* Image.thumbnail-like, aspect-preserving resize (not what the script does).
Resize_Thumbnail(im, size) ==
    LET byW == (im.h * size.w) \div im.w
        byH == (im.w * size.h) \div im.h
    IN  IF byW <= size.h
        THEN [mode |-> im.mode, w |-> size.w, h |-> byW]
        ELSE [mode |-> im.mode, w |-> byH, h |-> size.h]

\* img.resize(size, LANCZOS): a new image of exactly the size asked for.
Resize(im, size) == [mode |-> im.mode, w |-> size.w, h |-> size.h]

\* The except clause without its return: the run falls through to the report.
OnException_NoReturn ==
    /\ out' = out \o <<Msg("error", 0), Msg("success", NEntries), Msg("outdir", 0)>>
    /\ ipc' = "done"
    /\ snapshot' = snapshot

\* except Exception as e: print and return.
OnException ==
    /\ out' = Append(out, Msg("error", 0))
    /\ ipc' = "failed"
    /\ snapshot' = snapshot

IconInit ==
    /\ src \in Sources
    /\ \/ dirExists = FALSE /\ fs = EmptyDir
       \/ dirExists = TRUE /\ fs \in {EmptyDir, StaleDir}
    /\ ipc = "idle"
    /\ img = NoImg
    /\ idx = 0
    /\ resized = NoImg
    /\ written = <<>>
    /\ out = <<>>
    /\ runs = 0
    /\ snapshot = [taken |-> FALSE, run |-> 0, fs |-> EmptyDir]
    \* the exporter is not run
    /\ artifact = [loadable |-> FALSE, callable |-> FALSE, shape |-> <<>>]
    /\ pkg = [present |-> FALSE, content |->
                [converted |-> FALSE, author |-> "", license |-> "",
                 short_description |-> "", logits |-> ""]]
    /\ epc = "idle"
    /\ model = "none"
    /\ traced_model = "none"
    /\ mlmodel = pkg.content
    /\ ecalls = <<>>
    /\ eout = <<>>

\* python3 generate_ios_icons.py: a fresh process calls generate_icons().
StartRun ==
    /\ ipc \in {"idle", "aborted", "failed", "raised", "done"}
    /\ runs < MaxRuns
    /\ runs' = runs + 1
    /\ ipc' = "check"
    /\ img' = NoImg
    /\ idx' = 0
    /\ resized' = NoImg
    /\ written' = <<>>
    /\ out' = <<>>
    /\ UNCHANGED <<src, dirExists, fs, snapshot, evars>>

\* The existence check with its return dropped.
CheckSource_NoReturn ==
    /\ ipc = "check"
    /\ out' = IF src.exists THEN out ELSE Append(out, Msg("missing", 0))
    /\ ipc' = "makedirs"
    /\ UNCHANGED <<src, dirExists, fs, img, idx, resized, written, runs, snapshot, evars>>

\* if not os.path.exists(android_icon_path): print; return
CheckSource ==
    /\ ipc = "check"
    /\ IF src.exists
       THEN /\ ipc' = "makedirs"
            /\ out' = out
       ELSE /\ ipc' = "aborted"
            /\ out' = Append(out, Msg("missing", 0))
    /\ UNCHANGED <<src, dirExists, fs, img, idx, resized, written, runs, snapshot, evars>>

\* os.makedirs(ios_appicon_dir, exist_ok=True), outside any try; then the
\* two start-up prints.
MakeDirs ==
    /\ ipc = "makedirs"
    /\ \/ /\ dirExists' = TRUE
          /\ out' = out \o <<Msg("start", 0), Msg("source", 0)>>
          /\ ipc' = "open"
       \/ /\ ~dirExists          \* the directory cannot be created: OSError
          /\ dirExists' = dirExists
          /\ out' = out
          /\ ipc' = "raised"
    /\ UNCHANGED <<src, fs, img, idx, resized, written, runs, snapshot, evars>>

\* with Image.open(...) as img: convert to RGBA when needed, print the size.
OpenImage ==
    /\ ipc = "open"
    /\ IF src.exists /\ src.readable
       THEN /\ img' = LET im == [mode |-> src.mode, w |-> src.w, h |-> src.h]
                      IN  IF im.mode # "RGBA" THEN ImgConvert(im, "RGBA") ELSE im
            /\ out' = Append(out, Msg("size", 0))
            /\ idx' = 1
            /\ ipc' = "loop"
            /\ snapshot' = snapshot
       ELSE /\ OnException
            /\ UNCHANGED <<img, idx>>
    /\ UNCHANGED <<src, dirExists, fs, resized, written, runs, evars>>

\* for filename, size in ios_icon_sizes.items(): resized = img.resize(...)
ResizeEntry ==
    /\ ipc = "loop"
    /\ idx <= NEntries
    /\ \/ /\ resized' = Resize(img, ios_icon_sizes[idx])
          /\ ipc' = "save"
          /\ UNCHANGED <<out, snapshot>>
       \/ /\ OnException
          /\ resized' = resized
    /\ UNCHANGED <<src, dirExists, fs, img, idx, written, runs, evars>>

\* A save that never overwrites: an existing target is left alone and the
\* image goes to a numbered copy.
SaveEntry_NoOverwrite ==
    /\ ipc = "save"
    /\ LET name == ios_icon_sizes[idx].name
           target == IF fs[name] = NoFile THEN name ELSE "Icon-App-20x20@2x-1.png"
       IN  /\ fs' = [fs EXCEPT ![target] = resized]
           /\ written' = Append(written, name)
           /\ out' = Append(out, Msg("generated", idx))
           /\ idx' = idx + 1
           /\ ipc' = "loop"
    /\ UNCHANGED <<src, dirExists, img, resized, runs, snapshot, evars>>

\* A best-effort loop: a failed save is reported and the loop goes on.
SaveEntry_Continue ==
    /\ ipc = "save"
    /\ \/ /\ fs' = [fs EXCEPT ![ios_icon_sizes[idx].name] = resized]
          /\ written' = Append(written, ios_icon_sizes[idx].name)
          /\ out' = Append(out, Msg("generated", idx))
       \/ /\ out' = Append(out, Msg("error", 0))
          /\ UNCHANGED <<fs, written>>
    /\ idx' = idx + 1
    /\ ipc' = "loop"
    /\ UNCHANGED <<src, dirExists, img, resized, runs, snapshot, evars>>

\* resized.save(output_path, "PNG", optimize=True); print the entry.
SaveEntry ==
    /\ ipc = "save"
    /\ \/ /\ fs' = [fs EXCEPT ![ios_icon_sizes[idx].name] = resized]
          /\ written' = Append(written, ios_icon_sizes[idx].name)
          /\ out' = Append(out, Msg("generated", idx))
          /\ idx' = idx + 1
          /\ ipc' = "loop"
          /\ snapshot' = snapshot
       \/ /\ OnException
          /\ UNCHANGED <<fs, written, idx>>
    /\ UNCHANGED <<src, dirExists, img, resized, runs, evars>>

\* After the loop and the try: the completion report.
Finish ==
    /\ ipc = "loop"
    /\ idx > NEntries
    /\ out' = out \o <<Msg("success", Len(ios_icon_sizes)), Msg("outdir", 0)>>
    /\ ipc' = "done"
    /\ snapshot' = IF snapshot.taken THEN snapshot ELSE [taken |-> TRUE, run |-> runs, fs |-> fs]
    /\ UNCHANGED <<src, dirExists, fs, img, idx, resized, written, runs, evars>>

(***************************************************************************)
(* convert_captcha_model.py                                                *)
(***************************************************************************)
\* The file at model_path: unloadable, loadable but not callable on the
\* example input, and callable with the declared or another output shape.
Artifacts ==
    { [loadable |-> FALSE, callable |-> FALSE, shape |-> <<>>],
      [loadable |-> TRUE, callable |-> FALSE, shape |-> <<>>],
      [loadable |-> TRUE, callable |-> TRUE, shape |-> <<1, 15, 8>>],
      [loadable |-> TRUE, callable |-> TRUE, shape |-> <<1, 8, 15>>] }

NoML == [converted |-> FALSE, author |-> "", license |-> "",
         short_description |-> "", logits |-> ""]

\* A package left at output_path by an earlier export.
StaleML == [converted |-> TRUE, author |-> "earlier export", license |-> "",
            short_description |-> "", logits |-> ""]

\* What lines 85-89 leave in the model: the second assignment to
\* output_description["logits"] replaces the first.
WithMetadata(m) ==
    [m EXCEPT !.author = "BJTU SelfService Team",
              !.license = "same as Android",
              !.short_description = "captcha model - MultiArray [1, 3, 42, 130]",
              !.logits = "shape [1, 15, 8] - logits of 8 positions"]

Call(op, ok) == [op |-> op, ok |-> ok]

Called(op, ok) == \E i \in 1..Len(ecalls) : ecalls[i] = Call(op, ok)

NCalls(op) == Cardinality({i \in 1..Len(ecalls) : ecalls[i].op = op})

Printed(t) == \E i \in 1..Len(eout) : eout[i] = t

ExportInit ==
    /\ artifact \in Artifacts
    /\ pkg \in {[present |-> FALSE, content |-> NoML],
                [present |-> TRUE, content |-> StaleML]}
    /\ epc = "main"
    /\ model = "none"
    /\ traced_model = "none"
    /\ mlmodel = NoML
    /\ ecalls = <<>>
    /\ eout = <<>>
    \* the icon generator is not run
    /\ src = NoSrc
    /\ dirExists = FALSE
    /\ fs = EmptyDir
    /\ ipc = "idle"
    /\ img = NoImg
    /\ idx = 0
    /\ resized = NoImg
    /\ written = <<>>
    /\ out = <<>>
    /\ runs = 0
    /\ snapshot = [taken |-> FALSE, run |-> 0, fs |-> EmptyDir]

\* __main__: the banner, then inspect_model() is entered.
Main ==
    /\ epc = "main"
    /\ eout' = eout \o <<"banner", "inspecting">>
    /\ epc' = "inspect_load"
    /\ UNCHANGED <<artifact, pkg, model, traced_model, mlmodel, ecalls, ivars>>

\* inspect_model: model = torch.jit.load(model_path)
InspectLoad ==
    /\ epc = "inspect_load"
    /\ \/ /\ artifact.loadable
          /\ ecalls' = Append(ecalls, Call("load", TRUE))
          /\ eout' = Append(eout, "type_torchscript")
          /\ epc' = "inspect_forward"
       \/ /\ ecalls' = Append(ecalls, Call("load", FALSE))
          /\ eout' = Append(eout, "inspect_failed")
          /\ epc' = "main_else"
    /\ UNCHANGED <<artifact, pkg, model, traced_model, mlmodel, ivars>>

\* inspect_model: output = model(example_input); the prints; return True
InspectForward ==
    /\ epc = "inspect_forward"
    /\ IF artifact.callable
       THEN /\ ecalls' = Append(ecalls, Call("forward", TRUE))
            /\ eout' = eout \o <<"input_shape", "output_shape", "output_dtype", "separator">>
            /\ epc' = "convert_load"
       ELSE /\ ecalls' = Append(ecalls, Call("forward", FALSE))
            /\ eout' = Append(eout, "inspect_failed")
            /\ epc' = "main_else"
    /\ UNCHANGED <<artifact, pkg, model, traced_model, mlmodel, ivars>>

\* __main__: inspect_model() returned False.
MainElse ==
    /\ epc = "main_else"
    /\ eout' = Append(eout, "ensure_model_exists")
    /\ epc' = "exit"
    /\ UNCHANGED <<artifact, pkg, model, traced_model, mlmodel, ecalls, ivars>>

\* The load's except clause without its return.
ConvertLoad_NoReturn ==
    /\ epc = "convert_load"
    /\ \/ /\ artifact.loadable
          /\ ecalls' = Append(ecalls, Call("load", TRUE))
          /\ eout' = eout \o <<"converting", "loaded">>
          /\ model' = "loaded"
       \/ /\ ecalls' = Append(ecalls, Call("load", FALSE))
          /\ eout' = eout \o <<"converting", "load_failed", "need_training_code">>
          /\ model' = model
    /\ epc' = "eval"
    /\ UNCHANGED <<artifact, pkg, traced_model, mlmodel, ivars>>

\* convert_model: model = torch.jit.load(model_path), or print and return.
ConvertLoad ==
    /\ epc = "convert_load"
    /\ \/ /\ artifact.loadable
          /\ ecalls' = Append(ecalls, Call("load", TRUE))
          /\ eout' = eout \o <<"converting", "loaded">>
          /\ model' = "loaded"
          /\ epc' = "eval"
       \/ /\ ecalls' = Append(ecalls, Call("load", FALSE))
          /\ eout' = eout \o <<"converting", "load_failed", "need_training_code">>
          /\ model' = model
          /\ epc' = "exit"
    /\ UNCHANGED <<artifact, pkg, traced_model, mlmodel, ivars>>

\* convert_model: model.eval(), outside any try.
Eval ==
    /\ epc = "eval"
    /\ \/ /\ ecalls' = Append(ecalls, Call("eval", TRUE))
          /\ epc' = "trace"
       \/ /\ ecalls' = Append(ecalls, Call("eval", FALSE))
          /\ epc' = "crashed"
    /\ UNCHANGED <<artifact, pkg, model, traced_model, mlmodel, eout, ivars>>

\* A trace failure treated like the other stages: print and return.
Trace_Abort ==
    /\ epc = "trace"
    /\ \/ /\ ecalls' = Append(ecalls, Call("trace", TRUE))
          /\ traced_model' = "traced"
          /\ eout' = eout \o <<"traced", "to_coreml">>
          /\ epc' = "convert"
       \/ /\ ecalls' = Append(ecalls, Call("trace", FALSE))
          /\ traced_model' = traced_model
          /\ eout' = Append(eout, "trace_failed")
          /\ epc' = "exit"
    /\ UNCHANGED <<artifact, pkg, model, mlmodel, ivars>>

\* convert_model: torch.jit.trace, with the bare except that falls back to
\* the loaded model; then the "converting to Core ML" print.
Trace ==
    /\ epc = "trace"
    /\ \/ /\ ecalls' = Append(ecalls, Call("trace", TRUE))
          /\ traced_model' = "traced"
          /\ eout' = eout \o <<"traced", "to_coreml">>
       \/ /\ ecalls' = Append(ecalls, Call("trace", FALSE))
          /\ traced_model' = model
          /\ eout' = eout \o <<"already_torchscript", "to_coreml">>
    /\ epc' = "convert"
    /\ UNCHANGED <<artifact, pkg, model, mlmodel, ivars>>

\* The handler ending in a bare raise.
ExceptConvert_Reraise ==
    /\ eout' = eout \o <<"convert_failed", "possible_causes">>
    /\ epc' = "crashed"

\* except Exception as e: the diagnostic with the likely causes.
ExceptConvert ==
    /\ eout' = eout \o <<"convert_failed", "possible_causes">>
    /\ epc' = "exit"

\* convert_model: mlmodel = ct.convert(traced_model, ...)
CtConvert ==
    /\ epc = "convert"
    /\ \/ /\ ecalls' = Append(ecalls, Call("convert", TRUE))
          /\ mlmodel' = [NoML EXCEPT !.converted = TRUE]
          /\ eout' = eout
          /\ epc' = "metadata"
       \/ /\ ecalls' = Append(ecalls, Call("convert", FALSE))
          /\ mlmodel' = mlmodel
          /\ ExceptConvert
    /\ UNCHANGED <<artifact, pkg, model, traced_model, ivars>>

\* convert_model: the author, license and description assignments.
SetMetadata ==
    /\ epc = "metadata"
    /\ mlmodel' = WithMetadata(mlmodel)
    /\ epc' = "save"
    /\ UNCHANGED <<artifact, pkg, model, traced_model, ecalls, eout, ivars>>

\* A save whose failure is swallowed: the success report follows anyway.
Save_Swallow ==
    /\ epc = "save"
    /\ \/ /\ ecalls' = Append(ecalls, Call("save", TRUE))
          /\ pkg' = [present |-> TRUE, content |-> mlmodel]
       \/ /\ ecalls' = Append(ecalls, Call("save", FALSE))
          /\ pkg' = pkg
    /\ eout' = eout
    /\ epc' = "success"
    /\ UNCHANGED <<artifact, model, traced_model, mlmodel, ivars>>

\* convert_model: mlmodel.save(output_path). A save that raises may have
\* written nothing or may leave an incomplete package behind.
Save ==
    /\ epc = "save"
    /\ \/ /\ ecalls' = Append(ecalls, Call("save", TRUE))
          /\ pkg' = [present |-> TRUE, content |-> mlmodel]
          /\ eout' = eout
          /\ epc' = "success"
       \/ /\ ecalls' = Append(ecalls, Call("save", FALSE))
          /\ pkg' \in {pkg, [present |-> TRUE, content |-> NoML]}
          /\ ExceptConvert
    /\ UNCHANGED <<artifact, model, traced_model, mlmodel, ivars>>

\* convert_model: the success report and the next steps.
PrintSuccess ==
    /\ epc = "success"
    /\ eout' = eout \o <<"convert_ok", "saved_to", "shapes", "next_steps">>
    /\ epc' = "exit"
    /\ UNCHANGED <<artifact, pkg, model, traced_model, mlmodel, ecalls, ivars>>

(***************************************************************************)
(* Specifications: each script is its own process and is run on its own.   *)
(***************************************************************************)
IconNext ==
    \/ StartRun
    \/ CheckSource
    \/ MakeDirs
    \/ OpenImage
    \/ ResizeEntry
    \/ SaveEntry
    \/ Finish

ExportNext ==
    \/ Main
    \/ InspectLoad
    \/ InspectForward
    \/ MainElse
    \/ ConvertLoad
    \/ Eval
    \/ Trace
    \/ CtConvert
    \/ SetMetadata
    \/ Save
    \/ PrintSuccess

IconSpec == IconInit /\ [][IconNext]_vars

ExportSpec == ExportInit /\ [][ExportNext]_vars

(***************************************************************************)
(* Properties of the model exporter                                        *)
(***************************************************************************)
InitialPkgs == {[present |-> FALSE, content |-> NoML],
                [present |-> TRUE, content |-> StaleML]}

Exported == [present |-> TRUE, content |-> WithMetadata([NoML EXCEPT !.converted = TRUE])]

\* C1: when torch.jit.load raises, in inspect_model or in convert_model's own
\* load after inspect_model succeeded, the matching diagnostic is printed,
\* ct.convert and mlmodel.save are never invoked, and the package at the
\* output path stays as it was (absent, or the earlier export).
C1_LoadFailureStopsExport ==
    Called("load", FALSE) =>
        /\ ecalls[Len(ecalls)] = Call("load", FALSE)
        /\ IF Len(ecalls) = 1
           THEN Printed("inspect_failed")
           ELSE Printed("load_failed")
        /\ NCalls("convert") = 0
        /\ NCalls("save") = 0
        /\ mlmodel = NoML
        /\ pkg \in InitialPkgs
        /\ ~Printed("convert_ok")

\* C1 witness: inspect_model succeeded, convert_model's second load raised,
\* and the run has ended with an earlier package still in place.
C1_Witness ==
    /\ epc = "exit"
    /\ ecalls = <<Call("load", TRUE), Call("forward", TRUE), Call("load", FALSE)>>
    /\ pkg.present

\* C2 as stated: with a loadable artifact whose forward pass gave (1,15,8),
\* every run ends with the converted package saved and nothing propagating.
\* "Loadable" is read in the claim's favour: only runs in which every
\* torch.jit.load returned, and model.eval() with it, are held to the claim.
C2_Original ==
    ( /\ epc \in {"exit", "crashed"}
      /\ artifact.shape = <<1, 15, 8>>
      /\ Called("forward", TRUE)
      /\ ~Called("load", FALSE)
      /\ Called("eval", TRUE) )
    => (pkg = Exported /\ epc = "exit")

\* C2 amended: with a loadable artifact whose forward pass gave (1,15,8), a
\* run in which ct.convert and mlmodel.save both return ends with the
\* converted package (metadata included) at the output path, the success
\* report printed and no exception propagating; a run in which ct.convert or
\* mlmodel.save raises ends with the conversion diagnostic, no success report,
\* no complete package of this run at the output path, and no exception
\* propagating either.
C2_ExportSucceedsWhenStagesDo ==
    (artifact.shape = <<1, 15, 8>> /\ Called("forward", TRUE)) =>
        /\ (Called("convert", TRUE) /\ Called("save", TRUE)) =>
              /\ pkg = Exported
              /\ epc \in {"success", "exit"}
              /\ epc = "exit" => Printed("convert_ok")
        /\ (Called("convert", FALSE) \/ Called("save", FALSE)) =>
              /\ epc = "exit"
              /\ Printed("convert_failed")
              /\ ~Printed("convert_ok")
              /\ pkg # Exported
        /\ Called("convert", FALSE) => pkg \in InitialPkgs

\* C2 witness: the run of a (1,15,8) artifact has ended with the package
\* saved over an earlier export.
C2_Witness ==
    /\ epc = "exit"
    /\ artifact.shape = <<1, 15, 8>>
    /\ Called("save", TRUE)
    /\ pkg = Exported
    /\ Called("trace", TRUE)

\* C6 as stated: a failure of load, trace or convert is diagnosed and ends
\* the run: no later stage is attempted, so the failed call is the last call.
C6_Original ==
    \A i \in 1..Len(ecalls) :
        (ecalls[i].op \in {"load", "trace", "convert"} /\ ~ecalls[i].ok)
        => i = Len(ecalls)

\* C6 amended: a failure of the load or convert stage is caught, diagnosed
\* and ends the run with no later stage attempted and no retry; a failure of
\* the trace stage is caught too, but the run goes on: the loaded model is
\* used as the traced model, an informational message is printed, and
\* ct.convert is the next stage attempted. No stage is retried.
C6_StageFailures ==
    /\ \A i \in 1..Len(ecalls) :
          (ecalls[i].op \in {"load", "convert"} /\ ~ecalls[i].ok) =>
              /\ i = Len(ecalls)
              /\ epc \in {"main_else", "exit"}
              /\ \/ Printed("inspect_failed")
                 \/ Printed("load_failed")
                 \/ Printed("convert_failed")
    /\ \A i \in 1..Len(ecalls) :
          (ecalls[i] = Call("trace", FALSE)) =>
              /\ Printed("already_torchscript")
              /\ traced_model = "loaded"
              /\ epc # "crashed"
              /\ IF i = Len(ecalls)
                 THEN epc = "convert"
                 ELSE ecalls[i + 1].op = "convert"
    /\ NCalls("load") <= 2
    /\ NCalls("load") = 2 => Called("forward", TRUE)
    /\ NCalls("trace") <= 1
    /\ NCalls("convert") <= 1

\* C6 witness: the trace raised and ct.convert was attempted after it, and
\* then failed in its turn.
C6_Witness ==
    /\ epc = "exit"
    /\ Called("trace", FALSE)
    /\ ecalls[Len(ecalls)] = Call("convert", FALSE)

\* C10: ct.convert and mlmodel.save are each invoked at most once; save is
\* invoked only after the forward pass of inspect_model succeeded,
\* convert_model's load succeeded, ct.convert returned and the metadata were
\* set; the success report is printed only after save returned; when save
\* raises, the conversion diagnostic is printed and no success report.
C10_SingleAttemptOrdering ==
    /\ NCalls("convert") <= 1
    /\ NCalls("save") <= 1
    /\ NCalls("save") = 1 =>
          /\ ecalls[Len(ecalls)].op = "save"
          /\ SubSeq(ecalls, 1, Len(ecalls) - 1) \in
                { <<Call("load", TRUE), Call("forward", TRUE), Call("load", TRUE),
                    Call("eval", TRUE), Call("trace", t), Call("convert", TRUE)>> :
                  t \in BOOLEAN }
          /\ mlmodel = WithMetadata([NoML EXCEPT !.converted = TRUE])
    /\ Printed("convert_ok") => (Called("save", TRUE) /\ pkg = Exported)
    /\ Called("save", FALSE) =>
          /\ Printed("convert_failed")
          /\ ~Printed("convert_ok")
          /\ epc = "exit"

\* C10 witness: save raised after ct.convert returned, and the run has ended.
C10_Witness ==
    /\ epc = "exit"
    /\ Called("convert", TRUE)
    /\ Called("save", FALSE)

(***************************************************************************)
(* Properties of the icon generator                                        *)
(***************************************************************************)
\* The file the table's i-th entry must produce.
Expected(i) == [mode |-> "RGBA", w |-> ios_icon_sizes[i].w, h |-> ios_icon_sizes[i].h]

SuccessPrinted == \E i \in 1..Len(out) : out[i].tag = "success"

\* C3: a run that completes on an existing, readable source has written
\* exactly 22 files, one per table entry; each has exactly the entry's width
\* and height and is RGBA, whatever the mode of the source.
C3_AllIconsExact ==
    ipc = "done" =>
        /\ Len(written) = 22
        /\ Cardinality({written[i] : i \in 1..Len(written)}) = 22
        /\ {written[i] : i \in 1..Len(written)} = IconNames
        /\ \A i \in 1..NEntries : fs[ios_icon_sizes[i].name] = Expected(i)

\* C3 witness: a completed run on a non-square palette-mode source.
C3_Witness ==
    /\ ipc = "done"
    /\ src.mode = "P"
    /\ src.w # src.h

\* C4: with the source image missing, the run prints the diagnostic and
\* returns before the image is opened, resized or saved: no step of it
\* touches the output directory or its files.
C4_MissingSourceAborts ==
    [][ (~src.exists) =>
            /\ fs' = fs
            /\ dirExists' = dirExists
            /\ img' = NoImg
            /\ resized' = NoImg
            /\ written' = <<>>
            /\ ipc' \in {"check", "aborted"}
            /\ ipc' = "aborted" => out' = <<Msg("missing", 0)>> ]_vars

\* C4 witness: the run has aborted on a missing source, beside a directory
\* that had files in it.
C4_Witness ==
    /\ ipc = "aborted"
    /\ ~src.exists
    /\ fs = StaleDir

\* C5: after a later successful run on the same source, the directory holds
\* the same filenames with the same dimensions as after the first successful
\* run.
C5_RerunIdempotent ==
    (ipc = "done" /\ snapshot.taken /\ snapshot.run < runs) => fs = snapshot.fs

\* C5 witness: a second successful run has completed, in a directory that
\* also holds a file the table does not name.
C5_Witness ==
    /\ ipc = "done"
    /\ snapshot.taken
    /\ snapshot.run < runs
    /\ fs["Contents.json"] # NoFile

\* C7: no exception propagates out of generate_icons, inspect_model or
\* convert_model, whichever step raises.
C7_NoExceptionPropagates == ipc # "raised" /\ epc # "crashed"

\* C8: entries are saved in the table's order; a step writes at most the file
\* of the current entry; when the resize or save of the k-th entry raises,
\* exactly the files of the first k-1 entries have been written by this run,
\* they are left in place, and nothing more is written in this run.
C8_FailFastPrefix ==
    /\ [](\A i \in 1..Len(written) : written[i] = ios_icon_sizes[i].name)
    /\ [](ipc = "failed" =>
            /\ Len(written) = (IF idx = 0 THEN 0 ELSE idx - 1)
            /\ \A i \in 1..Len(written) : fs[ios_icon_sizes[i].name] = Expected(i))
    /\ [][ /\ \A n \in AllNames :
                fs'[n] # fs[n] =>
                    /\ ipc = "save"
                    /\ n = ios_icon_sizes[idx].name
                    /\ written' = Append(written, n)
           /\ ipc' = "failed" => (fs' = fs /\ written' = written)
           /\ ipc = "failed" => (fs' = fs /\ ipc' = "check") ]_vars

\* C8 witness: the save of the sixth entry raised after five files were written.
C8_Witness ==
    /\ ipc = "failed"
    /\ idx = 6
    /\ resized = Expected(6)
    /\ Len(written) = 5

\* C9: the completion report is printed only by a run that resized and saved
\* every entry, and the count it gives, len(ios_icon_sizes) = 22, is the
\* number of files the run wrote; an aborted run never prints it.
C9_SuccessReportOnlyWhenComplete ==
    /\ SuccessPrinted =>
          /\ ipc = "done"
          /\ Len(written) = NEntries
          /\ \A i \in 1..NEntries : fs[ios_icon_sizes[i].name] = Expected(i)
          /\ \A i \in 1..Len(out) :
                out[i].tag = "success" =>
                    (out[i].n = 22 /\ out[i].n = Cardinality({written[j] : j \in 1..Len(written)}))
    /\ ipc \in {"aborted", "failed", "raised"} => ~SuccessPrinted

\* C9 witness: a completed run has printed its report.
C9_Witness ==
    /\ ipc = "done"
    /\ SuccessPrinted
    /\ out[Len(out)] = Msg("outdir", 0)

====
